---- MODULE Spec2Model ----
(***************************************************************************)
(* Base -> Aptos CCTP transfer: address codec, source-chain sender,        *)
(* attestation poller, destination-chain receiver and the orchestrator.    *)
(* Two implementations of sender / poller / receiver exist in the          *)
(* repository: the mobile one (Saffron/api/cross-chain) and the            *)
(* script one (Saffron-contract/corss/src); impl is "mobile" or "contract".*)
(***************************************************************************)
EXTENDS Integers, Sequences, FiniteSets, TLC

\* ------------------------------------------------------------------ bounds
\* CIRCLE_API.maxRetries (150), pollInterval (2000 ms) and maxWaitTime
\* (300000 ms) scaled down, keeping maxRetries * pollInterval = maxWaitTime.
MaxRetries == 4
PollInterval == 2
MaxWaitTime == 8
\* longest duration of one authority query, in the same time unit
MaxLatency == 3
\* slack around the address width for the generated address inputs
AddrSlack == 2
\* the nominal amount of one transfer, in base units of the token
NominalAmount == 10
\* decimals() of the source-chain token (6 on chain), and the fractional
\* digits parseFloat is exact to in the model
Decimals == 1
FloatDigits == 3

\* --------------------------------------------------------- program constants
AddrHexLen == 64
\* validateMessageBytes / validateAttestation: length > 10
MinHexLen == 10
\* depositForBurn (contract): maxRetries
BurnMaxRetries == 3
\* extractMessageHash (mobile): maxRetries of the receipt lookup
ExtractMaxRetries == 15

VARIABLES
  \* address codec
  addrIn, addrRes, addrAgain,
  \* attestation poller (getAttestation)
  pImpl, pPc, pHash, pTx, retries, now, queries, sleeps, n404, lastKind, lastStep,
  lastMsg, lastSig, pErr, pRes,
  \* destination receiver (receiveCCTPUSDC) and the destination chain
  rImpl, rPc, rMsg, rAtt, rKey, aptFA, aptCoin, balBefore, balAfter, rTx,
  rArgs, aptTxs, rCaught, rRes, aptStatus, rRefused,
  \* source-chain sender (executeFullCrossChain) and the source chain
  sImpl, sPc, sAmount, sRecipient, baseBal, baseNonce, allowance, sNonce,
  attempt, approveCalls, burnCalls, burnsMined, burnTx, burnStatus, burnMsg,
  sErr, sRes, sOps, sCaught,
  \* getAttestationFromTransaction: message extraction, then the poller
  gImpl, gPc, lookups, xMsg, xHash, gErr, gRes,
  \* orchestrator (executeCrossChain)
  oPc, emissions, outcome, catches, onProgressThrows,
  \* two concurrent runs of executeFullCrossChain for one signer
  cPc, cNonce, cCalls, cChainNonce, cPending

codecVars == <<addrIn, addrRes, addrAgain>>
pollVars == <<pImpl, pPc, pHash, pTx, retries, now, queries, sleeps, n404,
              lastKind, lastStep, lastMsg, lastSig, pErr, pRes>>
recvVars == <<rImpl, rPc, rMsg, rAtt, rKey, aptFA, aptCoin, balBefore,
              balAfter, rTx, rArgs, aptTxs, rCaught, rRes, aptStatus,
              rRefused>>
sendVars == <<sImpl, sPc, sAmount, sRecipient, baseBal, baseNonce, allowance,
              sNonce, attempt, approveCalls, burnCalls, burnsMined, burnTx,
              burnStatus, burnMsg, sErr, sRes, sOps, sCaught>>
attVars == <<gImpl, gPc, lookups, xMsg, xHash, gErr, gRes>>
orchVars == <<oPc, emissions, outcome, catches, onProgressThrows>>
raceVars == <<cPc, cNonce, cCalls, cChainNonce, cPending>>
vars == <<codecVars, pollVars, recvVars, sendVars, attVars, orchVars, raceVars>>
notCodec == <<pollVars, recvVars, sendVars, attVars, orchVars, raceVars>>
notPoll == <<codecVars, recvVars, sendVars, attVars, orchVars, raceVars>>
notRecv == <<codecVars, pollVars, sendVars, attVars, orchVars, raceVars>>
notSend == <<codecVars, pollVars, recvVars, attVars, orchVars, raceVars>>
notRace == <<codecVars, pollVars, recvVars, sendVars, attVars, orchVars>>

Impls == {"mobile", "contract"}

\* ============================================================ address codec
HexDigits == {"0","1","2","3","4","5","6","7","8","9",
              "a","b","c","d","e","f","A","B","C","D","E","F"}
IsHex(s) == \A i \in 1..Len(s) : s[i] \in HexDigits
Fill(c, n) == [i \in 1..n |-> c]
Ox == <<"0", "x">>
StartsWithOx(s) == Len(s) >= 2 /\ s[1] = "0" /\ s[2] = "x"

\* String.prototype.replace('0x', ''): removes the FIRST occurrence of "0x",
\* wherever it is in the string.
OxAt(s, i) == i + 1 <= Len(s) /\ s[i] = "0" /\ s[i + 1] = "x"
FirstOx(s) ==
  IF \E i \in 1..Len(s) : OxAt(s, i)
  THEN CHOOSE i \in 1..Len(s) : OxAt(s, i) /\ \A j \in 1..(i - 1) : ~OxAt(s, j)
  ELSE 0
ReplaceOx(s) ==
  IF FirstOx(s) = 0 THEN s
  ELSE SubSeq(s, 1, FirstOx(s) - 1) \o SubSeq(s, FirstOx(s) + 2, Len(s))

Ok(v) == [ok |-> TRUE, val |-> v, err |-> ""]
Throw(e) == [ok |-> FALSE, val |-> <<>>, err |-> e]

aptosAddressToBytes32(aptosAddress) ==
  LET cleanAddress == ReplaceOx(aptosAddress)
  IN  IF Len(cleanAddress) # AddrHexLen
      THEN Throw("Invalid Aptos address length")
      ELSE Ok(Ox \o cleanAddress)

\* inputs: an optional prefix followed by n copies of one character
AddrPrefixes == {<<>>, Ox, <<"a", "0", "x">>, <<"0", "x", "0", "x">>, <<"0", "X">>}
AddrFillChars == {"a", "0", "g", "F"}
AddrInputs ==
  {p \o Fill(c, n) : p \in AddrPrefixes, c \in AddrFillChars,
                     n \in (AddrHexLen - AddrSlack)..(AddrHexLen + AddrSlack)}

NoRes == [ok |-> FALSE, val |-> <<>>, err |-> "not called"]

CodecInit ==
  /\ addrIn \in AddrInputs
  /\ addrRes = NoRes
  /\ addrAgain = NoRes

Encode ==
  /\ addrRes = NoRes
  /\ addrRes' = aptosAddressToBytes32(addrIn)
  /\ UNCHANGED <<addrIn, addrAgain>>
  /\ UNCHANGED notCodec

\* the codec applied to its own output
EncodeAgain ==
  /\ addrRes.ok
  /\ addrAgain = NoRes
  /\ addrAgain' = aptosAddressToBytes32(addrRes.val)
  /\ UNCHANGED <<addrIn, addrRes>>
  /\ UNCHANGED notCodec

\* ================================================================ JS values
\* Strings are sequences of one-character strings; Undef is the value of an
\* absent field or argument.
Undef == <<"undefined">>
Truthy(s) == s # Undef /\ Len(s) > 0
\* x || ''
OrEmpty(s) == IF Truthy(s) THEN s ELSE <<>>

\* message bytes and attestation signatures seen in the model
MsgA == Ox \o Fill("a", 12)
MsgB == Ox \o Fill("b", 12)
SigA == Ox \o Fill("5", 12)
SigB == Ox \o Fill("6", 12)
\* ethers.keccak256: one-way, modelled as an injective tag
Keccak(m) == <<"keccak">> \o m

\* ======================================================= attestation poller
\* Answers of the attestation authority to GET /v1/attestations/{hash}.
\*   kind "http"  : a non-ok response with the given status
\*   kind "json"  : an ok response with body {status, message?, attestation?}
\*   kind "throw" : fetch (or response.json()) rejects
Http(code) == [kind |-> "http", code |-> code, status |-> "", message |-> Undef, attestation |-> Undef]
Json(st, msg, att) == [kind |-> "json", code |-> 200, status |-> st, message |-> msg, attestation |-> att]
NetThrow == [kind |-> "throw", code |-> 0, status |-> "", message |-> Undef, attestation |-> Undef]

Responses ==
  { Http(404), Http(500), NetThrow,
    Json("complete", MsgA, SigA), Json("complete", MsgB, SigA),
    Json("complete", MsgA, SigB),
    Json("complete", Undef, SigA), Json("complete", MsgA, <<>>),
    Json("complete", MsgA, Undef),
    Json("pending_confirmations", Undef, Undef), Json("failed", Undef, Undef) }

\* how getAttestation reads an answer
Kind(resp) ==
  CASE resp.kind = "throw" -> "throw"
    [] resp.kind = "http" -> IF resp.code = 404 THEN "404" ELSE "error"
    [] resp.status = "complete" -> IF Truthy(resp.attestation) THEN "complete" ELSE "nosig"
    [] resp.status = "failed" -> "failed"
    [] OTHER -> "pending"

Latencies == 0..MaxLatency

NoAtt == [status |-> "none", messageHash |-> <<>>, messageBytes |-> <<>>, attestation |-> <<>>]

\* One pass of the body of the while loop, as a function of the loop state.
\* st = [retries, now, queries, sleeps]; the result adds pc/err/res/step.
Sleep(st) ==
  [st EXCEPT !.now = @ + PollInterval, !.sleeps = @ + 1]

\* SleepRetry with the while test letting one more iteration in
SleepRetryOneMore(st, step) ==
  LET s2 == [Sleep(st) EXCEPT !.retries = @ + 1, !.step = step]
  IN  IF s2.retries <= MaxRetries THEN s2
      ELSE [s2 EXCEPT !.pc = "threw",
                      !.err = "Getting attestation exceeded maximum retry attempts"]

\* sleep(pollInterval); retries++ and then the while test
SleepRetry(st, step) ==
  LET s2 == [Sleep(st) EXCEPT !.retries = @ + 1, !.step = step]
  IN  IF s2.retries < MaxRetries THEN s2
      ELSE [s2 EXCEPT !.pc = "threw",
                      !.err = "Getting attestation exceeded maximum retry attempts"]

\* the catch block of the loop
CatchBlock(st, e) ==
  IF st.retries = MaxRetries - 1
  THEN [st EXCEPT !.pc = "threw", !.err = e, !.step = "rethrow"]
  ELSE SleepRetry(st, "catch")

\* data.status === 'complete' without the test of data.attestation
CompleteAnySignature(resp) == resp.status = "complete"

\* data.status === 'complete' && data.attestation
Complete(resp) == resp.status = "complete" /\ Truthy(resp.attestation)

\* HandleResponse treating 404 like any other non-ok status
HandleResponseNotFoundIsError(impl, st, hash, resp, refetched) ==
  IF resp.kind = "throw" THEN CatchBlock(st, "Network request failed")
  ELSE IF resp.kind = "http" THEN CatchBlock(st, "Circle API error")
  ELSE IF Complete(resp) THEN
    [st EXCEPT !.pc = "returned", !.step = "return",
               !.res = [status |-> "complete", messageHash |-> hash,
                        messageBytes |->
                          IF ~Truthy(resp.message) /\ impl = "contract"
                          THEN refetched ELSE OrEmpty(resp.message),
                        attestation |-> resp.attestation]]
  ELSE IF impl = "contract" /\ resp.status = "failed" THEN
    CatchBlock(st, "Circle signature failed")
  ELSE SleepRetry(st, "waiting")

\* what follows the fetch, inside the try block; refetched is what the
\* contract implementation reads back from the source transaction when the
\* response has no message ('' when it was given no transaction or the
\* extraction failed)
HandleResponse(impl, st, hash, resp, refetched) ==
  IF resp.kind = "throw" THEN CatchBlock(st, "Network request failed")
  ELSE IF resp.kind = "http" THEN
    IF resp.code = 404 THEN SleepRetry(st, "notfound")
    ELSE CatchBlock(st, "Circle API error")
  ELSE IF Complete(resp) THEN
    [st EXCEPT !.pc = "returned", !.step = "return",
               !.res = [status |-> "complete", messageHash |-> hash,
                        messageBytes |->
                          IF ~Truthy(resp.message) /\ impl = "contract"
                          THEN refetched ELSE OrEmpty(resp.message),
                        attestation |-> resp.attestation]]
  ELSE IF impl = "contract" /\ resp.status = "failed" THEN
    CatchBlock(st, "Circle signature failed")
  ELSE SleepRetry(st, "waiting")

Query(st, lat) == [st EXCEPT !.queries = @ + 1, !.now = @ + lat]

\* LoopBody whose catch block swallows the timeout error of the contract
\* implementation and goes round again without counting the attempt
LoopBodyDeadlineSwallowed(impl, st, hash, resp, lat, refetched) ==
  IF st.now > MaxWaitTime
  THEN IF impl = "mobile"
       THEN [st EXCEPT !.pc = "threw", !.err = "Getting attestation timeout",
                       !.step = "timeout"]
       ELSE [st EXCEPT !.step = "timeout"]
  ELSE HandleResponse(impl, Query(st, lat), hash, resp, refetched)

\* LoopBody testing the deadline after the fetch instead of before it
LoopBodyDeadlineAfterFetch(impl, st, hash, resp, lat, refetched) ==
  IF st.now > MaxWaitTime
  THEN IF impl = "mobile"
       THEN [Query(st, lat) EXCEPT !.pc = "threw",
                                   !.err = "Getting attestation timeout",
                                   !.step = "timeout"]
       ELSE CatchBlock(Query(st, lat), "Getting attestation timeout")
  ELSE HandleResponse(impl, Query(st, lat), hash, resp, refetched)

\* one iteration of the loop, from the while test that let it in
LoopBody(impl, st, hash, resp, lat, refetched) ==
  IF st.now > MaxWaitTime
  THEN IF impl = "mobile"
       \* the deadline test is before the try block
       THEN [st EXCEPT !.pc = "threw", !.err = "Getting attestation timeout",
                       !.step = "timeout"]
       \* the deadline test is inside the try block
       ELSE CatchBlock(st, "Getting attestation timeout")
  ELSE HandleResponse(impl, Query(st, lat), hash, resp, refetched)

PollState ==
  [pc |-> pPc, retries |-> retries, now |-> now, queries |-> queries,
   sleeps |-> sleeps, err |-> pErr, res |-> pRes, step |-> lastStep]

SetPollState(s) ==
  /\ pPc' = s.pc
  /\ retries' = s.retries
  /\ now' = s.now
  /\ queries' = s.queries
  /\ sleeps' = s.sleeps
  /\ pErr' = s.err
  /\ pRes' = s.res
  /\ lastStep' = s.step

PollInit ==
  /\ pImpl \in Impls
  /\ pPc = "loop"
  /\ pHash = Keccak(MsgA)
  /\ pTx = ""
  /\ retries = 0
  /\ now = 0
  /\ queries = 0
  /\ sleeps = 0
  /\ n404 = 0
  /\ lastKind = "none"
  /\ lastStep = "start"
  /\ lastMsg = Undef
  /\ lastSig = Undef
  /\ pErr = ""
  /\ pRes = NoAtt

PollIter ==
  /\ pPc = "loop"
  /\ \E resp \in Responses, lat \in Latencies, found \in BOOLEAN :
       LET asked == now <= MaxWaitTime
           refetched == IF pTx # "" /\ found THEN OrEmpty(burnMsg) ELSE <<>>
       IN  /\ SetPollState(LoopBody(pImpl, PollState, pHash, resp, lat, refetched))
           /\ lastKind' = IF asked THEN Kind(resp) ELSE "none"
           /\ lastMsg' = IF asked THEN resp.message ELSE Undef
           /\ lastSig' = IF asked THEN resp.attestation ELSE Undef
           /\ n404' = IF asked /\ resp = Http(404) THEN n404 + 1 ELSE n404
  /\ UNCHANGED <<pImpl, pHash, pTx>>
  /\ UNCHANGED notPoll

\* ==================================================== destination receiver
\* decimal strings
Digits == <<"0", "1", "2", "3", "4", "5", "6", "7", "8", "9">>
DigitVal(c) == CHOOSE d \in 0..9 : Digits[d + 1] = c
IsDigits(s) == \A i \in 1..Len(s) : \E d \in 0..9 : Digits[d + 1] = s[i]

RECURSIVE NatToString(_)
NatToString(n) ==
  IF n < 10 THEN <<Digits[n + 1]>>
  ELSE NatToString(n \div 10) \o <<Digits[(n % 10) + 1]>>
\* BigInt.prototype.toString / the chain's rendering of a u64
IntToString(n) == IF n < 0 THEN <<"-">> \o NatToString(0 - n) ELSE NatToString(n)

RECURSIVE ParseNat(_)
ParseNat(s) ==
  IF Len(s) = 0 THEN 0
  ELSE 10 * ParseNat(SubSeq(s, 1, Len(s) - 1)) + DigitVal(s[Len(s)])
\* BigInt(string) of a decimal integer string
BigInt(s) ==
  IF Len(s) > 0 /\ s[1] = "-" THEN 0 - ParseNat(Tail(s)) ELSE ParseNat(s)

\* A store of the destination chain: Missing, or the balance it holds.
Missing == -1
\* (resource.data)?.balance || '0'  for a store that exists
StoreBalance(store) ==
  IF Truthy(IntToString(store)) THEN IntToString(store) ELSE <<"0">>

\* checkUSDCBalance without the catch of a missing resource
checkUSDCBalanceMissingRead(impl, fa, coin, faFails, coinFails) ==
  IF ~faFails THEN StoreBalance(fa)
  ELSE IF impl = "contract" /\ coin # Missing /\ ~coinFails THEN StoreBalance(coin)
  ELSE <<"0">>
\* checkUSDCBalance: faFails / coinFails say whether the RPC read is refused
checkUSDCBalance(impl, fa, coin, faFails, coinFails) ==
  IF fa # Missing /\ ~faFails THEN StoreBalance(fa)
  ELSE IF impl = "contract" /\ coin # Missing /\ ~coinFails THEN StoreBalance(coin)
  ELSE <<"0">>

\* the reads of one checkUSDCBalance call that the RPC node refused: the
\* Coin store is read (contract implementation) only when the read of the
\* FungibleStore threw
Refused(impl, fa, faFails, coinFails) ==
  (IF faFails THEN {"fa"} ELSE {})
  \cup (IF impl = "contract" /\ (fa = Missing \/ faFails) /\ coinFails
        THEN {"coin"} ELSE {})

\* hexToBytes: one byte per pair of characters after the prefix is removed
hexToBytes(hex) ==
  LET cleanHex == ReplaceOx(hex)
  IN  [i \in 1..(Len(cleanHex) \div 2) |-> <<cleanHex[2 * i - 1], cleanHex[2 * i]>>]

validateMessageBytes(messageBytes) ==
  IF ~Truthy(messageBytes) THEN FALSE
  ELSE StartsWithOx(messageBytes) /\ Len(messageBytes) > MinHexLen

\* attestation.startsWith raises a TypeError for an absent attestation
validateAttestation(attestation) ==
  IF attestation = Undef THEN Throw("TypeError")
  ELSE Ok(StartsWithOx(attestation) /\ Len(attestation) > MinHexLen)

\* the checks of receiveCCTPUSDC before any chain interaction: "" when
\* they pass, else the message of the error thrown
RecvInputError(impl, messageBytes, attestation, key) ==
  IF impl = "mobile" THEN
    IF ~Truthy(messageBytes) \/ ~StartsWithOx(messageBytes)
      THEN "Invalid message bytes format"
    ELSE IF ~Truthy(attestation) \/ ~StartsWithOx(attestation)
      THEN "Invalid attestation format"
    ELSE IF key # "good" THEN "Invalid private key"
    ELSE ""
  ELSE
    IF ~validateMessageBytes(messageBytes) THEN "Invalid message bytes format"
    ELSE IF ~validateAttestation(attestation).ok THEN "TypeError"
    ELSE IF ~validateAttestation(attestation).val THEN "Invalid attestation format"
    ELSE IF key = "" THEN "Recipient private key required for signing"
    ELSE IF key # "good" THEN "Invalid private key"
    ELSE ""

NoRecv == [txHash |-> "", success |-> FALSE, usdcAmount |-> Undef]
RecvFailure == [txHash |-> "", success |-> FALSE, usdcAmount |-> <<"0">>]
AptosTx == "0xAPTOSTX"

\* a catch block that lets the error out of receiveCCTPUSDC
RecvCatchRethrow(e) ==
  /\ rPc' = "threw"
  /\ rCaught' = e
  /\ UNCHANGED rRes

\* the catch block of receiveCCTPUSDC
RecvCatch(e) ==
  /\ rPc' = "done"
  /\ rCaught' = e
  /\ rRes' = RecvFailure

RecvMessages == {Undef, <<>>, Ox, Ox \o <<"a", "b">>, Fill("a", 12), MsgA}
RecvAttestations == {Undef, <<>>, Ox, Fill("5", 12), SigA}
RecvKeys == {"good", "bad", ""}
InitialStores == {Missing, 0, 5}
CoinStores == {Missing, 7}
\* what the receive transaction adds to the recipient's store
Mints == {0, NominalAmount - 1, NominalAmount}

RecvInit ==
  /\ rImpl \in Impls
  /\ rPc = "start"
  /\ rMsg \in RecvMessages
  /\ rAtt \in RecvAttestations
  /\ rKey \in RecvKeys
  /\ aptFA \in InitialStores
  /\ aptCoin \in CoinStores
  /\ balBefore = Undef
  /\ balAfter = Undef
  /\ rTx = ""
  /\ rArgs = <<>>
  /\ aptTxs = 0
  /\ rCaught = ""
  /\ rRes = NoRecv
  /\ aptStatus = "none"
  /\ rRefused = {}

RecvValidate ==
  /\ rPc = "start"
  /\ LET e == RecvInputError(rImpl, rMsg, rAtt, rKey)
     IN  IF e = "" THEN rPc' = "balanceBefore" /\ UNCHANGED <<rCaught, rRes>>
         ELSE RecvCatch(e)
  /\ UNCHANGED <<aptStatus, rRefused>>
  /\ UNCHANGED <<rImpl, rMsg, rAtt, rKey, aptFA, aptCoin, balBefore, balAfter,
                 rTx, rArgs, aptTxs>>
  /\ UNCHANGED notRecv

RecvBalanceBefore ==
  /\ rPc = "balanceBefore"
  /\ \E faFails \in BOOLEAN, coinFails \in BOOLEAN :
       /\ balBefore' = checkUSDCBalance(rImpl, aptFA, aptCoin, faFails, coinFails)
       /\ rRefused' = Refused(rImpl, aptFA, faFails, coinFails)
  /\ rPc' = "build"
  /\ UNCHANGED aptStatus
  /\ UNCHANGED <<rImpl, rMsg, rAtt, rKey, aptFA, aptCoin, balAfter, rTx, rArgs,
                 aptTxs, rCaught, rRes>>
  /\ UNCHANGED notRecv

\* script bytecode + transaction.build.simple
RecvBuild ==
  /\ rPc = "build"
  /\ \E ok \in BOOLEAN :
       IF ok THEN /\ rPc' = "submit"
                  /\ rArgs' = <<hexToBytes(rMsg), hexToBytes(rAtt)>>
                  /\ UNCHANGED <<rCaught, rRes>>
       ELSE RecvCatch("Transaction build failed") /\ UNCHANGED rArgs
  /\ UNCHANGED <<aptStatus, rRefused>>
  /\ UNCHANGED <<rImpl, rMsg, rAtt, rKey, aptFA, aptCoin, balBefore, balAfter,
                 rTx, aptTxs>>
  /\ UNCHANGED notRecv

\* signAndSubmitTransaction
RecvSubmit ==
  /\ rPc = "submit"
  /\ \E ok \in BOOLEAN :
       IF ok THEN /\ rPc' = "wait"
                  /\ rTx' = AptosTx
                  /\ aptTxs' = aptTxs + 1
                  /\ UNCHANGED <<rCaught, rRes>>
       ELSE RecvCatch("Transaction submission failed") /\ UNCHANGED <<rTx, aptTxs>>
  /\ UNCHANGED <<aptStatus, rRefused>>
  /\ UNCHANGED <<rImpl, rMsg, rAtt, rKey, aptFA, aptCoin, balBefore, balAfter,
                 rArgs>>
  /\ UNCHANGED notRecv


\* RecvWait without the test of txnResult.success
RecvWaitStatusIgnored ==
  /\ rPc = "wait"
  /\ \E fate \in {"success", "reverted", "throw"}, delta \in Mints :
       CASE fate = "success" ->
              /\ aptFA' = (IF aptFA = Missing THEN 0 ELSE aptFA) + delta
              /\ rPc' = "balanceAfter"
              /\ aptStatus' = "success"
              /\ UNCHANGED <<rCaught, rRes>>
         [] fate = "reverted" ->
              /\ rPc' = "balanceAfter"
              /\ aptStatus' = "reverted"
              /\ UNCHANGED <<aptFA, rCaught, rRes>>
         [] OTHER ->
              RecvCatch("waitForTransaction failed")
              /\ UNCHANGED <<aptFA, aptStatus>>
  /\ UNCHANGED rRefused
  /\ UNCHANGED <<rImpl, rMsg, rAtt, rKey, aptCoin, balBefore, balAfter, rTx,
                 rArgs, aptTxs>>
  /\ UNCHANGED notRecv

\* waitForTransaction and the test of txnResult.success
RecvWait ==
  /\ rPc = "wait"
  /\ \E fate \in {"success", "reverted", "throw"}, delta \in Mints :
       CASE fate = "success" ->
              /\ aptFA' = (IF aptFA = Missing THEN 0 ELSE aptFA) + delta
              /\ rPc' = "balanceAfter"
              /\ aptStatus' = "success"
              /\ UNCHANGED <<rCaught, rRes>>
         [] fate = "reverted" ->
              /\ RecvCatch("Transaction failed: vm_status")
              /\ aptStatus' = "reverted"
              /\ UNCHANGED aptFA
         [] OTHER ->
              RecvCatch("waitForTransaction failed")
              /\ UNCHANGED <<aptFA, aptStatus>>
  /\ UNCHANGED rRefused
  /\ UNCHANGED <<rImpl, rMsg, rAtt, rKey, aptCoin, balBefore, balAfter, rTx,
                 rArgs, aptTxs>>
  /\ UNCHANGED notRecv

\* receivedAmount reporting the nominal amount of the transfer
receivedAmountNominal(after, before) == IntToString(NominalAmount)
receivedAmount(after, before) == IntToString(BigInt(after) - BigInt(before))

RecvBalanceAfter ==
  /\ rPc = "balanceAfter"
  /\ \E faFails \in BOOLEAN, coinFails \in BOOLEAN :
       LET after == checkUSDCBalance(rImpl, aptFA, aptCoin, faFails, coinFails)
       IN  /\ balAfter' = after
           /\ rRefused' = Refused(rImpl, aptFA, faFails, coinFails)
           /\ rRes' = [txHash |-> rTx, success |-> TRUE,
                       usdcAmount |-> receivedAmount(after, balBefore)]
  /\ rPc' = "done"
  /\ UNCHANGED aptStatus
  /\ UNCHANGED <<rImpl, rMsg, rAtt, rKey, aptFA, aptCoin, balBefore, rTx, rArgs,
                 aptTxs, rCaught>>
  /\ UNCHANGED notRecv

\* ======================================================= source-chain sender
RECURSIVE Pow10(_)
Pow10(d) == IF d = 0 THEN 1 ELSE 10 * Pow10(d - 1)

\* position of the decimal point of a decimal string, 0 when it has none
DotAt(s) ==
  IF \E i \in 1..Len(s) : s[i] = "." THEN CHOOSE i \in 1..Len(s) : s[i] = "." ELSE 0
WholePart(s) == IF DotAt(s) = 0 THEN s ELSE SubSeq(s, 1, DotAt(s) - 1)
FracPart(s) == IF DotAt(s) = 0 THEN <<>> ELSE SubSeq(s, DotAt(s) + 1, Len(s))
IsDecimal(s) ==
  /\ Len(WholePart(s)) + Len(FracPart(s)) > 0
  /\ IsDigits(WholePart(s)) /\ IsDigits(FracPart(s))

\* ethers.parseUnits(value, decimals)
parseUnits(value, decimals) ==
  IF ~IsDecimal(value) THEN Throw("invalid FixedNumber string value")
  ELSE IF Len(FracPart(value)) > decimals THEN Throw("too many decimals for format")
  ELSE Ok(ParseNat(WholePart(value)) * Pow10(decimals)
          + ParseNat(FracPart(value)) * Pow10(decimals - Len(FracPart(value))))

RECURSIVE StripZeros(_)
StripZeros(s) ==
  IF Len(s) > 1 /\ s[Len(s)] = "0" THEN StripZeros(SubSeq(s, 1, Len(s) - 1)) ELSE s
PadZeros(s, n) == Fill("0", n - Len(s)) \o s
\* ethers.formatUnits(value, decimals): at least one fractional digit
formatUnits(value, decimals) ==
  IF decimals = 0 THEN NatToString(value) \o <<".", "0">>
  ELSE NatToString(value \div Pow10(decimals)) \o <<".">>
       \o StripZeros(PadZeros(NatToString(value % Pow10(decimals)), decimals))

\* parseFloat of a decimal string, as an exact multiple of 10^-FloatDigits;
\* NaN for a string that does not start with a number
NaN == -1
parseFloat(s) ==
  IF ~IsDecimal(s) \/ Len(FracPart(s)) > FloatDigits THEN NaN
  ELSE ParseNat(WholePart(s)) * Pow10(FloatDigits)
       + ParseNat(FracPart(s)) * Pow10(FloatDigits - Len(FracPart(s)))
\* a < b on numbers: false when either side is NaN
FloatLess(a, b) == a # NaN /\ b # NaN /\ a < b

Unit == Pow10(Decimals)
BaseTx == "0xBASETX"
ValidRecipient == Ox \o Fill("b", AddrHexLen)
OrchRecipients == {ValidRecipient, Fill("b", AddrHexLen), Ox \o Fill("b", AddrHexLen - 1)}
OrchBalances == {0, 3 * Unit}
OrchKeys == {"good", "bad"}
OrchStores == {Missing, 5}
SendRecipients ==
  {ValidRecipient, Fill("b", AddrHexLen), Ox \o Fill("b", AddrHexLen - 1),
   Ox \o Fill("g", AddrHexLen), <<"a", "0", "x">> \o Fill("b", AddrHexLen - 1)}
SendAmounts == {<<"1", ".", "0">>, <<"3", ".", "0">>, <<"2", ".", "5">>}
BaseBalances == {0, 2 * Unit, 3 * Unit}
NoSend == [txHash |-> "", nonce |-> "", messageBytes |-> Undef]

SendInit ==
  /\ sImpl \in Impls
  /\ sPc = "start"
  /\ sAmount \in SendAmounts
  /\ sRecipient \in SendRecipients
  /\ baseBal \in BaseBalances
  /\ baseNonce = 0
  /\ allowance = FALSE
  /\ sNonce = -1
  /\ attempt = 1
  /\ approveCalls = <<>>
  /\ burnCalls = <<>>
  /\ burnsMined = 0
  /\ burnTx = ""
  /\ burnStatus = 1
  /\ burnMsg = Undef
  /\ sErr = ""
  /\ sRes = NoSend
  /\ sOps = <<>>
  /\ sCaught = ""

SendThrow(e) == sPc' = "threw" /\ sErr' = e

\* mobile executeFullCrossChain: signer.getNonce('latest')
SendGetNonce ==
  /\ sPc = "start" /\ sImpl = "mobile"
  /\ \E ok \in BOOLEAN :
       IF ok THEN sNonce' = baseNonce /\ sPc' = "approve" /\ UNCHANGED sErr
       ELSE SendThrow("could not get nonce") /\ UNCHANGED sNonce
  /\ sOps' = Append(sOps, "getNonce")
  /\ UNCHANGED sCaught
  /\ UNCHANGED <<sImpl, sAmount, sRecipient, baseBal, baseNonce, allowance,
                 attempt, approveCalls, burnCalls, burnsMined, burnTx, burnMsg,
                 sRes>>
  /\ UNCHANGED <<burnStatus, notSend>>

\* contract executeFullCrossChain: checkUSDCBalance and the balance test
InsufficientBalance(balance, amount) ==
  FloatLess(parseFloat(balance), parseFloat(amount))

SendCheckBalance ==
  /\ sPc = "start" /\ sImpl = "contract"
  /\ \E ok \in BOOLEAN :
       IF ~ok THEN SendThrow("could not read balance") /\ UNCHANGED sOps
       ELSE IF InsufficientBalance(formatUnits(baseBal, Decimals), sAmount)
       THEN SendThrow("Insufficient USDC balance") /\ UNCHANGED sOps
       ELSE /\ sPc' = "approve"
            /\ sOps' = Append(sOps, "balanceOk")
            /\ UNCHANGED sErr
  /\ UNCHANGED sCaught
  /\ UNCHANGED <<sImpl, sAmount, sRecipient, baseBal, baseNonce, allowance,
                 sNonce, attempt, approveCalls, burnCalls, burnsMined, burnTx,
                 burnMsg, sRes>>
  /\ UNCHANGED <<burnStatus, notSend>>

\* approveUSDC up to the submission of the approval transaction.  The mobile
\* sender passes the nonce it was given; the contract sender lets the signer
\* choose it, and converts the amount first.
SendApproveSubmit ==
  /\ sPc = "approve"
  /\ \E ok \in BOOLEAN :
       IF sImpl = "contract" /\ ~parseUnits(sAmount, Decimals).ok
       THEN SendThrow(parseUnits(sAmount, Decimals).err)
            /\ UNCHANGED <<approveCalls, sOps>>
       ELSE /\ approveCalls' =
                 Append(approveCalls, IF sImpl = "mobile" THEN sNonce ELSE baseNonce)
            /\ sOps' = Append(sOps, "approve")
            /\ IF ok THEN sPc' = "approveWait" /\ UNCHANGED sErr
               ELSE SendThrow("approve rejected")
  /\ UNCHANGED sCaught
  /\ UNCHANGED <<sImpl, sAmount, sRecipient, baseBal, baseNonce, allowance,
                 sNonce, attempt, burnCalls, burnsMined, burnTx, burnMsg, sRes>>
  /\ UNCHANGED <<burnStatus, notSend>>

\* approveTx.wait()
SendApproveWait ==
  /\ sPc = "approveWait"
  /\ \E ok \in BOOLEAN :
       IF ok THEN /\ allowance' = TRUE
                  /\ baseNonce' = baseNonce + 1
                  /\ sPc' = "burn"
                  /\ sOps' = Append(sOps, "approveMined")
                  /\ UNCHANGED sErr
       ELSE SendThrow("approve not mined")
            /\ UNCHANGED <<allowance, baseNonce, sOps>>
  /\ UNCHANGED sCaught
  /\ UNCHANGED <<sImpl, sAmount, sRecipient, baseBal, sNonce, attempt,
                 approveCalls, burnCalls, burnsMined, burnTx, burnMsg, sRes>>
  /\ UNCHANGED <<burnStatus, notSend>>

\* the catch block of the retry loop of the contract depositForBurn; the
\* mobile depositForBurn has no retry loop and the error propagates
NonceExpired == "NONCE_EXPIRED"
SendCatch(e) ==
  /\ sCaught' = e
  /\ IF sImpl = "mobile" THEN SendThrow(e) /\ UNCHANGED attempt
     ELSE IF e = NonceExpired /\ attempt < BurnMaxRetries
          THEN sPc' = "burn" /\ attempt' = attempt + 1 /\ UNCHANGED sErr
     ELSE IF attempt = BurnMaxRetries THEN SendThrow(e) /\ UNCHANGED attempt
     ELSE sPc' = "burn" /\ attempt' = attempt + 1 /\ UNCHANGED sErr

\* the checks of depositForBurn before the burn transaction is submitted:
\* "" when they pass, else the message of the error thrown
BurnInputError(impl, amount, recipient) ==
  IF impl = "contract" /\ (~StartsWithOx(recipient) \/ Len(recipient) # AddrHexLen + 2)
    THEN "Invalid Aptos address format"
  ELSE IF ~parseUnits(amount, Decimals).ok THEN parseUnits(amount, Decimals).err
  ELSE IF ~aptosAddressToBytes32(recipient).ok THEN aptosAddressToBytes32(recipient).err
  ELSE ""

\* depositForBurn up to the submission of the burn transaction
SendBurnSubmit ==
  /\ sPc = "burn"
  /\ LET e == BurnInputError(sImpl, sAmount, sRecipient)
         amountWei == parseUnits(sAmount, Decimals).val
         call == [amount |-> amountWei,
                  mintRecipient |-> aptosAddressToBytes32(sRecipient).val,
                  nonce |-> IF sImpl = "mobile" THEN sNonce + 1 ELSE baseNonce]
     IN  IF e # "" THEN SendCatch(e) /\ UNCHANGED <<burnCalls, burnTx, sOps>>
         ELSE /\ burnCalls' = Append(burnCalls, call)
              \* the contract sender reads the signer's nonce before the call
              /\ sOps' = sOps \o (IF sImpl = "contract"
                                  THEN <<"getNonce", "burn">> ELSE <<"burn">>)
              /\ \E fate \in {"accepted", "nonce", "rpc"} :
                   CASE amountWei > baseBal \/ ~IsHex(ReplaceOx(sRecipient)) ->
                          SendCatch("burn call rejected by the chain") /\ UNCHANGED burnTx
                     [] fate = "nonce" /\ amountWei <= baseBal ->
                          SendCatch(NonceExpired) /\ UNCHANGED burnTx
                     [] fate = "rpc" /\ amountWei <= baseBal ->
                          SendCatch("burn rejected") /\ UNCHANGED burnTx
                     [] OTHER ->
                          /\ burnTx' = BaseTx
                          /\ sPc' = "burnWait"
                          /\ UNCHANGED <<sErr, attempt, sCaught>>
  /\ UNCHANGED <<sImpl, sAmount, sRecipient, baseBal, baseNonce, allowance,
                 sNonce, approveCalls, burnsMined, burnMsg, sRes>>
  /\ UNCHANGED <<burnStatus, notSend>>

\* tx.wait(): the burn is mined and emits MessageSent (or, as an anomaly of
\* the bridge, no such event), or the wait fails
SendBurnWait ==
  /\ sPc = "burnWait"
  /\ \E fate \in {"mined", "noevent", "throw"} :
       IF fate = "throw"
       THEN SendCatch("burn not mined")
            /\ UNCHANGED <<baseBal, baseNonce, burnsMined, burnMsg, sOps>>
       ELSE /\ baseBal' = baseBal - burnCalls[Len(burnCalls)].amount
            /\ baseNonce' = baseNonce + 1
            /\ burnsMined' = burnsMined + 1
            /\ burnMsg' = IF fate = "mined" THEN MsgA ELSE Undef
            /\ sOps' = Append(sOps, "burnMined")
            /\ sPc' = "burnExtract"
            /\ UNCHANGED <<sErr, attempt, sCaught>>
  /\ UNCHANGED <<sImpl, sAmount, sRecipient, allowance, sNonce, approveCalls,
                 burnCalls, burnTx, sRes>>
  /\ UNCHANGED <<burnStatus, notSend>>

\* the message is read from the receipt: from the receipt tx.wait() returned
\* (mobile), or from one getTransactionReceipt lookup (contract)
SendBurnExtract ==
  /\ sPc = "burnExtract"
  /\ \E receipt \in BOOLEAN :
       IF sImpl = "contract" /\ ~receipt
         THEN SendCatch("Unable to get transaction receipt") /\ UNCHANGED sRes
       ELSE IF burnMsg = Undef
         THEN SendCatch("MessageSent event not found") /\ UNCHANGED sRes
       ELSE /\ sRes' = [txHash |-> burnTx, nonce |-> "0x01", messageBytes |-> burnMsg]
            /\ sPc' = "returned"
            /\ UNCHANGED <<sErr, attempt, sCaught>>
  /\ UNCHANGED <<sImpl, sAmount, sRecipient, baseBal, baseNonce, allowance,
                 sNonce, approveCalls, burnCalls, burnsMined, burnTx, burnMsg,
                 sOps>>
  /\ UNCHANGED <<burnStatus, notSend>>


\* ============================================ getAttestationFromTransaction
\* The poller is entered with the hash of the extracted message.
StartPoll(hash, tx) ==
  /\ pPc' = "loop"
  /\ pHash' = hash
  /\ pTx' = tx
  /\ UNCHANGED <<pImpl, retries, now, queries, sleeps, n404, lastKind,
                 lastStep, lastMsg, lastSig, pErr, pRes>>

AttThrow(e) == gPc' = "threw" /\ gErr' = e

\* ReceiptError without the test of the MessageSent log
ReceiptErrorNoEventTest(impl, status, msg) ==
  IF impl = "mobile" /\ status = 0 THEN "Transaction execution failed"
  ELSE IF impl = "contract" /\ ~StartsWithOx(msg) THEN "Message bytes format error"
  ELSE ""

\* what extraction does with a receipt: "" and the message, or the error
ReceiptError(impl, status, msg) ==
  IF impl = "mobile" /\ status = 0 THEN "Transaction execution failed"
  ELSE IF msg = Undef THEN "MessageSent event not found"
  ELSE IF impl = "contract" /\ ~StartsWithOx(msg) THEN "Message bytes format error"
  ELSE ""

\* one getTransactionReceipt of extractMessageHash (mobile: up to
\* ExtractMaxRetries lookups, a sleep after each miss) or of
\* extractMessageFromTransaction (contract: one lookup), and what follows
\* when the receipt is there
ExtractLookup ==
  /\ gPc = "extract"
  /\ \E answer \in {"receipt", "null", "throw"} :
       CASE answer = "throw" ->
              /\ AttThrow("could not get receipt")
              /\ lookups' = lookups + 1
              /\ UNCHANGED <<xMsg, xHash, pollVars>>
         [] answer = "null" ->
              /\ IF gImpl = "contract"
                 THEN AttThrow("Unable to get transaction receipt")
                 ELSE IF lookups + 1 = ExtractMaxRetries
                 THEN AttThrow("Unable to get transaction receipt, please try again later")
                 ELSE UNCHANGED <<gPc, gErr>>
              /\ lookups' = lookups + 1
              /\ UNCHANGED <<xMsg, xHash, pollVars>>
         [] OTHER ->
              LET e == ReceiptError(gImpl, burnStatus, burnMsg)
              IN  IF e # ""
                  THEN /\ AttThrow(e)
                       /\ lookups' = lookups + 1
                       /\ UNCHANGED <<xMsg, xHash, pollVars>>
                  \* the lookup loop is left and its counter is gone
                  ELSE /\ lookups' = 0
                       /\ xMsg' = burnMsg
                       /\ xHash' = Keccak(burnMsg)
                       /\ gPc' = "poll"
                       /\ StartPoll(Keccak(burnMsg),
                                    IF gImpl = "contract" THEN burnTx ELSE "")
                       /\ UNCHANGED gErr
  /\ UNCHANGED <<gImpl, gRes>>
  /\ UNCHANGED <<raceVars, codecVars, recvVars, sendVars, orchVars>>

\* getAttestationFromTransaction returning the poller's value as it is
BackfillNever(att, extracted) == att

\* the message bytes are taken from the extraction when the poller's are empty
Backfill(att, extracted) ==
  IF ~Truthy(att.messageBytes) THEN [att EXCEPT !.messageBytes = OrEmpty(extracted)]
  ELSE att

\* getAttestation is over: its result or error is taken and its locals are
\* gone; of the authority's answers, the message and the signature of the
\* answer that made it return stay on record
PollLocalsGone ==
  /\ pPc' = "idle" /\ pHash' = <<>> /\ pTx' = "" /\ retries' = 0 /\ now' = 0
  /\ queries' = 0 /\ sleeps' = 0 /\ n404' = 0 /\ lastKind' = "none"
  /\ lastStep' = "start"
  /\ pErr' = "" /\ pRes' = NoAtt
  /\ lastMsg' = IF pPc = "returned" THEN lastMsg ELSE Undef
  /\ lastSig' = IF pPc = "returned" THEN lastSig ELSE Undef
  /\ UNCHANGED pImpl

AttReturn ==
  /\ gPc = "poll"
  /\ pPc \in {"returned", "threw"}
  /\ IF pPc = "returned"
     THEN gPc' = "returned" /\ gRes' = Backfill(pRes, xMsg) /\ UNCHANGED gErr
     ELSE AttThrow(pErr) /\ UNCHANGED gRes
  /\ PollLocalsGone
  /\ UNCHANGED <<gImpl, lookups, xMsg, xHash>>
  /\ UNCHANGED <<raceVars, codecVars, recvVars, sendVars, orchVars>>

\* a call of getAttestationFromTransaction(txHash, provider) for a burn
\* transaction that is on the source chain, reverted or not, with or without
\* a MessageSent event
AttInit ==
  /\ gImpl \in Impls /\ gPc = "extract" /\ lookups = 0 /\ xMsg = Undef
  /\ xHash = <<>> /\ gErr = "" /\ gRes = NoAtt
  /\ pImpl = gImpl /\ pPc = "idle" /\ pHash = <<>> /\ pTx = "" /\ retries = 0
  /\ now = 0 /\ queries = 0 /\ sleeps = 0 /\ n404 = 0
  /\ lastKind = "none" /\ lastStep = "start" /\ lastMsg = Undef
  /\ lastSig = Undef /\ pErr = "" /\ pRes = NoAtt
  /\ sImpl = gImpl /\ sPc = "idle" /\ sAmount = Undef /\ sRecipient = Undef
  /\ baseBal = 0 /\ baseNonce = 2 /\ allowance = TRUE /\ sNonce = -1
  /\ attempt = 1 /\ approveCalls = <<>> /\ burnCalls = <<>> /\ burnsMined = 1
  /\ burnTx = BaseTx /\ burnStatus \in {0, 1}
  /\ burnMsg \in (IF burnStatus = 1 THEN {MsgA, Undef} ELSE {Undef})
  /\ sErr = "" /\ sRes = NoSend
  /\ sOps = <<>> /\ sCaught = ""

\* ============================================================== orchestrator
USDC_AMOUNT == <<"1", ".", "0">>
TotalSteps == 3
Emission(step, status, message, txHash, details, percentage) ==
  [step |-> step, totalSteps |-> TotalSteps, status |-> status,
   message |-> message, txHash |-> txHash, details |-> details,
   percentage |-> percentage]

Step1Processing == Emission(1, "processing", "Burning USDC on Base chain...", "", "", 10)
Step1Completed(tx) == Emission(1, "completed", "Base chain transaction successful", tx, "", 33)
\* Step2Processing with a percentage below the one of step 1 completed
Step2ProcessingLow == Emission(2, "processing", "Waiting for Circle signature...", "", "", 30)
Step2Processing == Emission(2, "processing", "Waiting for Circle signature...", "", "", 40)
Step2Completed == Emission(2, "completed", "Circle signature retrieved successfully", "", "", 66)
Step3Processing == Emission(3, "processing", "Receiving USDC on Aptos chain...", "", "", 75)
Step3Completed(tx) == Emission(3, "completed", "Cross-chain completed!", tx, "", 100)
\* Failed without the message of the error
FailedNoDetails(e) == Emission(0, "failed", "Cross-chain failed", "", "", 0)
Failed(e) == Emission(0, "failed", "Cross-chain failed", "", e, 0)

NoOutcome == [success |-> FALSE, baseTxHash |-> "", aptosTxHash |-> "",
              usdcAmount |-> Undef, error |-> "not finished"]

\* whether one invocation of onProgress throws
CallbackThrows == IF onProgressThrows THEN BOOLEAN ELSE {FALSE}
CallbackError == "onProgress threw"

\* the catch block of executeCrossChain, entered after the emissions ems:
\* onProgress is invoked outside any try block, so when it throws here the
\* promise of executeCrossChain rejects
OrchCatchAfter(ems, e) ==
  /\ emissions' = Append(ems, Failed(e))
  /\ catches' = catches + 1
  /\ \E t \in CallbackThrows :
       IF t THEN oPc' = "rejected" /\ UNCHANGED outcome
       ELSE /\ outcome' = [success |-> FALSE, baseTxHash |-> "",
                           aptosTxHash |-> "", usdcAmount |-> Undef,
                           error |-> e]
            /\ oPc' = "done"

\* OrchCatch returning a fixed message instead of the error's
OrchCatchGeneric(e) ==
  /\ emissions' = Append(emissions, Failed(e))
  /\ outcome' = [success |-> FALSE, baseTxHash |-> "", aptosTxHash |-> "",
                 usdcAmount |-> Undef, error |-> "Cross-chain failed"]
  /\ catches' = catches + 1
  /\ oPc' = "done"

\* the catch block entered by the throw of a step
OrchCatch(e) == OrchCatchAfter(emissions, e)

OrchStart ==
  /\ oPc = "start"
  /\ \E t \in CallbackThrows :
       IF t THEN /\ OrchCatchAfter(Append(emissions, Step1Processing), CallbackError)
                 /\ UNCHANGED sPc
       ELSE /\ emissions' = Append(emissions, Step1Processing)
            /\ oPc' = "step1"
            /\ sPc' = "start"
            /\ UNCHANGED <<outcome, catches>>
  /\ UNCHANGED <<sImpl, sAmount, sRecipient, baseBal, baseNonce, allowance,
                 sNonce, attempt, approveCalls, burnCalls, burnsMined, burnTx,
                 burnStatus, burnMsg, sErr, sRes, sOps, sCaught>>
  /\ UNCHANGED <<raceVars, codecVars, pollVars, recvVars, attVars>>
  /\ UNCHANGED onProgressThrows

\* OrchStep1Done with the two emissions in the opposite order
OrchStep1DoneSwapped ==
  /\ oPc = "step1" /\ sPc = "returned"
  /\ emissions' = emissions \o <<Step2Processing, Step1Completed(sRes.txHash)>>
  /\ oPc' = "step2"
  /\ gPc' = "extract"
  /\ UNCHANGED <<outcome, catches>>
  /\ UNCHANGED <<gImpl, lookups, xMsg, xHash, gErr, gRes>>
  /\ UNCHANGED <<raceVars, codecVars, pollVars, recvVars, sendVars>>
  /\ UNCHANGED onProgressThrows

\* executeFullCrossChain returned: steps 1 -> 2
OrchStep1Done ==
  /\ oPc = "step1" /\ sPc = "returned"
  /\ \E t1 \in CallbackThrows, t2 \in CallbackThrows :
       IF t1 THEN
         /\ OrchCatchAfter(Append(emissions, Step1Completed(sRes.txHash)),
                           CallbackError)
         /\ UNCHANGED gPc
       ELSE IF t2 THEN
         /\ OrchCatchAfter(emissions \o <<Step1Completed(sRes.txHash),
                                          Step2Processing>>, CallbackError)
         /\ UNCHANGED gPc
       ELSE
         /\ emissions' = emissions \o <<Step1Completed(sRes.txHash), Step2Processing>>
         /\ oPc' = "step2"
         /\ gPc' = "extract"
         /\ UNCHANGED <<outcome, catches>>
  /\ UNCHANGED <<gImpl, lookups, xMsg, xHash, gErr, gRes>>
  /\ UNCHANGED <<raceVars, codecVars, pollVars, recvVars, sendVars>>
  /\ UNCHANGED onProgressThrows

\* OrchStep2Done going on to step 3 whether step 2 returned or threw
OrchStep2DoneEager ==
  /\ oPc = "step2" /\ gPc \in {"returned", "threw"}
  /\ emissions' = emissions \o <<Step2Completed, Step3Processing>>
  /\ oPc' = "step3"
  /\ rPc' = "start"
  /\ rMsg' = gRes.messageBytes
  /\ rAtt' = gRes.attestation
  /\ UNCHANGED <<outcome, catches>>
  /\ UNCHANGED <<rImpl, rKey, aptFA, aptCoin, balBefore, balAfter, rTx, rArgs,
                 aptTxs, rCaught, rRes, aptStatus, rRefused>>
  /\ UNCHANGED <<raceVars, codecVars, pollVars, sendVars, attVars>>
  /\ UNCHANGED onProgressThrows

\* getAttestationFromTransaction returned: steps 2 -> 3
OrchStep2Done ==
  /\ oPc = "step2" /\ gPc = "returned"
  /\ \E t1 \in CallbackThrows, t2 \in CallbackThrows :
       IF t1 THEN
         /\ OrchCatchAfter(Append(emissions, Step2Completed), CallbackError)
         /\ UNCHANGED <<rPc, rMsg, rAtt>>
       ELSE IF t2 THEN
         /\ OrchCatchAfter(emissions \o <<Step2Completed, Step3Processing>>,
                           CallbackError)
         /\ UNCHANGED <<rPc, rMsg, rAtt>>
       ELSE
         /\ emissions' = emissions \o <<Step2Completed, Step3Processing>>
         /\ oPc' = "step3"
         /\ rPc' = "start"
         /\ rMsg' = gRes.messageBytes
         /\ rAtt' = gRes.attestation
         /\ UNCHANGED <<outcome, catches>>
  /\ UNCHANGED <<rImpl, rKey, aptFA, aptCoin, balBefore, balAfter, rTx, rArgs,
                 aptTxs, rCaught, rRes, aptStatus, rRefused>>
  /\ UNCHANGED <<raceVars, codecVars, pollVars, sendVars, attVars>>
  /\ UNCHANGED onProgressThrows

\* OrchStep3Done without the test of receiveResult.success
OrchStep3DoneUnchecked ==
  /\ oPc = "step3" /\ rPc = "done"
  /\ emissions' = Append(emissions, Step3Completed(rRes.txHash))
  /\ outcome' = [success |-> TRUE, baseTxHash |-> sRes.txHash,
                 aptosTxHash |-> rRes.txHash,
                 usdcAmount |-> USDC_AMOUNT, error |-> ""]
  /\ oPc' = "done"
  /\ UNCHANGED catches
  /\ UNCHANGED <<raceVars, codecVars, pollVars, recvVars, sendVars, attVars>>
  /\ UNCHANGED onProgressThrows

\* receiveCCTPUSDC returned
OrchStep3Done ==
  /\ oPc = "step3" /\ rPc = "done"
  /\ \E t \in CallbackThrows :
       IF ~rRes.success THEN OrchCatch("Aptos receive failed")
       ELSE IF t THEN
         OrchCatchAfter(Append(emissions, Step3Completed(rRes.txHash)),
                        CallbackError)
       ELSE /\ emissions' = Append(emissions, Step3Completed(rRes.txHash))
            /\ outcome' = [success |-> TRUE, baseTxHash |-> sRes.txHash,
                           aptosTxHash |-> rRes.txHash,
                           usdcAmount |-> USDC_AMOUNT, error |-> ""]
            /\ oPc' = "done"
            /\ UNCHANGED catches
  /\ UNCHANGED <<raceVars, codecVars, pollVars, recvVars, sendVars, attVars>>
  /\ UNCHANGED onProgressThrows

\* executeFullCrossChain threw
OrchStep1Threw ==
  /\ oPc = "step1" /\ sPc = "threw"
  /\ OrchCatch(sErr)
  /\ UNCHANGED <<raceVars, codecVars, pollVars, recvVars, sendVars, attVars>>
  /\ UNCHANGED onProgressThrows

\* OrchStep2Threw sending the transfer again instead of ending the run
OrchStep2ThrewResend ==
  /\ oPc = "step2" /\ gPc = "threw"
  /\ emissions' = Append(emissions, Failed(gErr))
  /\ catches' = catches + 1
  /\ oPc' = "step1"
  /\ sPc' = "start"
  /\ UNCHANGED outcome
  /\ UNCHANGED <<sImpl, sAmount, sRecipient, baseBal, baseNonce, allowance,
                 sNonce, attempt, approveCalls, burnCalls, burnsMined, burnTx,
                 burnStatus, burnMsg, sErr, sRes, sOps, sCaught>>
  /\ UNCHANGED <<raceVars, codecVars, pollVars, recvVars, attVars>>
  /\ UNCHANGED onProgressThrows

\* getAttestationFromTransaction threw
OrchStep2Threw ==
  /\ oPc = "step2" /\ gPc = "threw"
  /\ OrchCatch(gErr)
  /\ UNCHANGED <<raceVars, codecVars, pollVars, recvVars, sendVars, attVars>>
  /\ UNCHANGED onProgressThrows

\* ===================================== concurrent runs of executeFullCrossChain
\* Two runs of the mobile executeFullCrossChain for the same signer, with a
\* valid request each; what is modelled is the nonce each transaction is
\* given and what the node does with it.
\*   cChainNonce : the signer's transaction count, the value of getNonce('latest')
\*   cNonce[r]   : initialNonce of run r (-1 before it is read)
\*   cCalls      : the transactions the runs handed to the node, in order
\*   cPending    : the transactions the node holds unmined
Runs == {1, 2}
RaceTx(r, kind, nonce) == [run |-> r, kind |-> kind, nonce |-> nonce]
RaceIdle ==
  /\ cPc = [r \in Runs |-> "idle"]
  /\ cNonce = [r \in Runs |-> -1]
  /\ cCalls = <<>>
  /\ cChainNonce = 0
  /\ cPending = {}
RaceInit ==
  /\ cPc = [r \in Runs |-> "start"]
  /\ cNonce = [r \in Runs |-> -1]
  /\ cCalls = <<>>
  /\ cChainNonce \in {0, 2}
  /\ cPending = {}

\* const initialNonce = await signer.getNonce('latest')
RaceGetNonce(r) ==
  /\ cPc[r] = "start"
  /\ \E ok \in BOOLEAN :
       IF ok THEN /\ cNonce' = [cNonce EXCEPT ![r] = cChainNonce]
                  /\ cPc' = [cPc EXCEPT ![r] = "approve"]
       ELSE /\ cPc' = [cPc EXCEPT ![r] = "threw"]
            /\ UNCHANGED cNonce
  /\ UNCHANGED <<cCalls, cChainNonce, cPending, notRace>>

\* the node is handed a transaction: it refuses a nonce already used by a
\* mined transaction; one with the nonce of an unmined transaction is
\* refused or takes its place; any submission may fail
RaceSubmit(r, kind, nonce, next) ==
  /\ cCalls' = Append(cCalls, RaceTx(r, kind, nonce))
  /\ \E fate \in {"accepted", "refused"} :
       IF fate = "refused" \/ nonce < cChainNonce
       THEN /\ cPc' = [cPc EXCEPT ![r] = "threw"]
            /\ UNCHANGED cPending
       ELSE /\ cPending' = {t \in cPending : t.nonce # nonce}
                             \cup {RaceTx(r, kind, nonce)}
            /\ cPc' = [cPc EXCEPT ![r] = next]
  /\ UNCHANGED <<cNonce, cChainNonce, notRace>>

\* tx.wait(): the transaction is mined when its nonce is the signer's next
\* one; the wait fails when the transaction was replaced or its nonce was
\* used by another transaction
RaceWait(r, kind, nonce, next) ==
  LET tx == RaceTx(r, kind, nonce)
  IN  /\ IF tx \in cPending /\ nonce = cChainNonce
         THEN /\ cChainNonce' = cChainNonce + 1
              /\ cPending' = cPending \ {tx}
              /\ cPc' = [cPc EXCEPT ![r] = next]
         ELSE /\ tx \notin cPending \/ nonce < cChainNonce
              /\ cPc' = [cPc EXCEPT ![r] = "threw"]
              /\ cPending' = cPending \ {tx}
              /\ UNCHANGED cChainNonce
      /\ UNCHANGED <<cNonce, cCalls, notRace>>

\* approveUSDC(signer, amount, initialNonce)
RaceApproveSubmit(r) ==
  cPc[r] = "approve" /\ RaceSubmit(r, "approve", cNonce[r], "approveWait")
RaceApproveWait(r) ==
  cPc[r] = "approveWait" /\ RaceWait(r, "approve", cNonce[r], "burn")

\* depositForBurn reading the signer's nonce again (nonce === undefined)
RaceBurnSubmitRequeried(r) ==
  cPc[r] = "burn" /\ RaceSubmit(r, "burn", cChainNonce, "burnWait")

\* depositForBurn(signer, amount, recipientAddress, initialNonce + 1)
RaceBurnSubmit(r) ==
  cPc[r] = "burn" /\ RaceSubmit(r, "burn", cNonce[r] + 1, "burnWait")
RaceBurnWait(r) ==
  cPc[r] = "burnWait" /\ RaceWait(r, "burn", cNonce[r] + 1, "returned")

\* ============================================================ specifications
CodecIdle == addrIn = <<>> /\ addrRes = NoRes /\ addrAgain = NoRes
PollIdle ==
  /\ pImpl = "mobile" /\ pPc = "idle" /\ pHash = <<>> /\ pTx = "" /\ retries = 0
  /\ now = 0 /\ queries = 0 /\ sleeps = 0 /\ n404 = 0
  /\ lastKind = "none" /\ lastStep = "start" /\ lastMsg = Undef
  /\ lastSig = Undef /\ pErr = "" /\ pRes = NoAtt
RecvIdle ==
  /\ rImpl = "mobile" /\ rPc = "idle" /\ rMsg = Undef /\ rAtt = Undef
  /\ rKey = "" /\ aptFA = Missing /\ aptCoin = Missing /\ balBefore = Undef
  /\ balAfter = Undef /\ rTx = "" /\ rArgs = <<>> /\ aptTxs = 0
  /\ rCaught = "" /\ rRes = NoRecv /\ aptStatus = "none" /\ rRefused = {}
SendIdle ==
  /\ sImpl = "mobile" /\ sPc = "idle" /\ sAmount = Undef /\ sRecipient = Undef
  /\ baseBal = 0 /\ baseNonce = 0 /\ allowance = FALSE /\ sNonce = -1
  /\ attempt = 1 /\ approveCalls = <<>> /\ burnCalls = <<>> /\ burnsMined = 0
  /\ burnTx = "" /\ burnStatus = 1 /\ burnMsg = Undef /\ sErr = "" /\ sRes = NoSend
  /\ sOps = <<>> /\ sCaught = ""
AttIdle ==
  /\ gImpl = "mobile" /\ gPc = "idle" /\ lookups = 0 /\ xMsg = Undef
  /\ xHash = <<>> /\ gErr = "" /\ gRes = NoAtt
OrchIdle ==
  /\ oPc = "idle" /\ emissions = <<>> /\ outcome = NoOutcome /\ catches = 0
  /\ onProgressThrows = FALSE

\* the address codec on generated inputs
InitCodec ==
  CodecInit /\ PollIdle /\ RecvIdle /\ SendIdle /\ AttIdle /\ OrchIdle /\ RaceIdle
NextCodec == Encode \/ EncodeAgain
SpecCodec == InitCodec /\ [][NextCodec]_vars

\* one call of getAttestation(messageHash), either implementation
InitPoll ==
  PollInit /\ CodecIdle /\ RecvIdle /\ SendIdle /\ AttIdle /\ OrchIdle /\ RaceIdle
NextPoll == PollIter
SpecPoll == InitPoll /\ [][NextPoll]_vars
\* the same call when every fetch and every sleep it awaits completes
SpecPollLive == SpecPoll /\ WF_vars(PollIter)

\* one call of getAttestationFromTransaction, either implementation
InitAtt == AttInit /\ CodecIdle /\ RecvIdle /\ OrchIdle /\ RaceIdle
NextAtt ==
  \/ ExtractLookup
  \/ PollIter
  \/ AttReturn
SpecAtt == InitAtt /\ [][NextAtt]_vars

\* one call of receiveCCTPUSDC, either implementation
InitRecv ==
  RecvInit /\ CodecIdle /\ PollIdle /\ SendIdle /\ AttIdle /\ OrchIdle /\ RaceIdle
NextRecv ==
  \/ RecvValidate
  \/ RecvBalanceBefore
  \/ RecvBuild
  \/ RecvSubmit
  \/ RecvWait
  \/ RecvBalanceAfter
SpecRecv == InitRecv /\ [][NextRecv]_vars

\* one call of executeFullCrossChain, either implementation
InitSend ==
  SendInit /\ CodecIdle /\ PollIdle /\ RecvIdle /\ AttIdle /\ OrchIdle /\ RaceIdle
NextSend ==
  \/ SendGetNonce
  \/ SendCheckBalance
  \/ SendApproveSubmit
  \/ SendApproveWait
  \/ SendBurnSubmit
  \/ SendBurnWait
  \/ SendBurnExtract
SpecSend == InitSend /\ [][NextSend]_vars

\* the two places where the message is read from the receipt of the burn:
\* a call of executeFullCrossChain, or a call of
\* getAttestationFromTransaction
InitSource == InitSend \/ InitAtt
NextSource ==
  \/ SendGetNonce
  \/ SendCheckBalance
  \/ SendApproveSubmit
  \/ SendApproveWait
  \/ SendBurnSubmit
  \/ SendBurnWait
  \/ SendBurnExtract
  \/ ExtractLookup
  \/ PollIter
  \/ AttReturn
SpecSource == InitSource /\ [][NextSource]_vars

\* two concurrent calls of executeFullCrossChain with the same signer
InitRace ==
  RaceInit /\ CodecIdle /\ PollIdle /\ RecvIdle /\ SendIdle /\ AttIdle /\ OrchIdle
NextRace ==
  \/ \E r \in Runs : RaceGetNonce(r)
  \/ \E r \in Runs : RaceApproveSubmit(r)
  \/ \E r \in Runs : RaceApproveWait(r)
  \/ \E r \in Runs : RaceBurnSubmit(r)
  \/ \E r \in Runs : RaceBurnWait(r)
SpecRace == InitRace /\ [][NextRace]_vars

\* one run of executeCrossChain (the mobile implementations of the steps)
RunInit ==
  /\ CodecIdle
  /\ RaceIdle
  /\ PollIdle
  /\ AttIdle
  /\ oPc = "start" /\ emissions = <<>> /\ outcome = NoOutcome /\ catches = 0
  /\ sImpl = "mobile" /\ sPc = "idle" /\ sAmount = USDC_AMOUNT
  /\ sRecipient \in OrchRecipients
  /\ baseBal \in OrchBalances /\ baseNonce = 0 /\ allowance = FALSE /\ sNonce = -1
  /\ attempt = 1 /\ approveCalls = <<>> /\ burnCalls = <<>> /\ burnsMined = 0
  /\ burnTx = "" /\ burnStatus = 1 /\ burnMsg = Undef /\ sErr = "" /\ sRes = NoSend
  /\ sOps = <<>> /\ sCaught = ""
  /\ rImpl = "mobile" /\ rPc = "idle" /\ rMsg = Undef /\ rAtt = Undef
  /\ rKey \in OrchKeys /\ aptFA \in OrchStores /\ aptCoin = Missing
  /\ balBefore = Undef /\ balAfter = Undef /\ rTx = "" /\ rArgs = <<>>
  /\ aptTxs = 0 /\ rCaught = "" /\ rRes = NoRecv
  /\ aptStatus = "none" /\ rRefused = {}
\* the progress callback of the application, which does not throw
Init == RunInit /\ onProgressThrows = FALSE
Next ==
  \/ OrchStart
  \/ SendGetNonce
  \/ SendApproveSubmit
  \/ SendApproveWait
  \/ SendBurnSubmit
  \/ SendBurnWait
  \/ SendBurnExtract
  \/ OrchStep1Done
  \/ OrchStep1Threw
  \/ ExtractLookup
  \/ PollIter
  \/ AttReturn
  \/ OrchStep2Done
  \/ OrchStep2Threw
  \/ RecvValidate
  \/ RecvBalanceBefore
  \/ RecvBuild
  \/ RecvSubmit
  \/ RecvWait
  \/ RecvBalanceAfter
  \/ OrchStep3Done
Spec == Init /\ [][Next]_vars

\* one run of executeCrossChain with a progress callback that may throw on
\* any of its invocations
InitCallback == RunInit /\ onProgressThrows = TRUE
SpecCallback == InitCallback /\ [][Next]_vars

\* ==================================================================== claims
Triple(em) == <<em.step, em.status, em.percentage>>
Triples == [i \in 1..Len(emissions) |-> Triple(emissions[i])]
SuccessTriples ==
  << <<1, "processing", 10>>, <<1, "completed", 33>>, <<2, "processing", 40>>,
     <<2, "completed", 66>>, <<3, "processing", 75>>, <<3, "completed", 100>> >>
AllStepsSucceeded ==
  sPc = "returned" /\ gPc = "returned" /\ rPc = "done" /\ rRes.success
RunFailed == oPc = "done" /\ ~outcome.success
\* the error the catch block of executeCrossChain received
CaughtError ==
  IF sPc = "threw" THEN sErr
  ELSE IF gPc = "threw" THEN gErr
  ELSE "Aptos receive failed"
\* emissions that precede the failure: those of a successful run up to the
\* failing step
EmissionsBeforeFailure ==
  IF sPc = "threw" THEN 1 ELSE IF gPc = "threw" THEN 3 ELSE 5

\* C1: a run of executeCrossChain in which the three steps succeeded has
\* delivered exactly the six emissions (1,processing,10) (1,completed,33)
\* (2,processing,40) (2,completed,66) (3,processing,75) (3,completed,100), in
\* this order, and returns success with the burn hash, the receive hash and
\* an amount.
C1_SuccessRun ==
  (oPc = "done" /\ AllStepsSucceeded) =>
    /\ Triples = SuccessTriples
    /\ outcome.success
    /\ outcome.baseTxHash = burnTx /\ burnTx # ""
    /\ outcome.aptosTxHash = rTx /\ rTx # ""
    /\ Truthy(outcome.usdcAmount)
    /\ emissions[2].txHash = burnTx /\ emissions[6].txHash = rTx
C1_Witness ==
  oPc = "done" /\ AllStepsSucceeded /\ outcome.success /\ Len(emissions) = 6

\* C2 as stated: in every run, failed ones included, each emission carries a
\* percentage strictly greater than the previous one, and 100 is emitted
\* only when the final step succeeded.
C2_Original ==
  /\ \A i \in 2..Len(emissions) :
       emissions[i].percentage > emissions[i - 1].percentage
  /\ (\E i \in 1..Len(emissions) : emissions[i].percentage = 100) =>
       (rPc = "done" /\ rRes.success)
\* C2 amended: the percentages of the processing and completed emissions
\* strictly increase in emission order; a failed emission is the last one
\* and carries percentage 0; 100 is emitted only when the final step
\* succeeded.
C2_Amended ==
  /\ \A i \in 2..Len(emissions) :
       emissions[i].status # "failed" =>
         emissions[i].percentage > emissions[i - 1].percentage
  /\ \A i \in 1..Len(emissions) :
       emissions[i].status = "failed" =>
         (i = Len(emissions) /\ emissions[i].percentage = 0)
  /\ (\E i \in 1..Len(emissions) : emissions[i].percentage = 100) =>
       (rPc = "done" /\ rRes.success)
C2_Witness ==
  RunFailed /\ Len(emissions) = 6 /\ emissions[6].percentage = 0
  /\ emissions[5].percentage = 75

\* C3: when a step throws, executeCrossChain catches once, finishes with an
\* outcome (it does not throw) and the outcome has success=false and the
\* message of the error that was thrown.
C3_ErrorCaughtOnce ==
  /\ catches <= 1
  /\ (sPc = "threw" /\ oPc = "done") =>
       (catches = 1 /\ ~outcome.success /\ outcome.error = sErr /\ sErr # "")
  /\ (gPc = "threw" /\ oPc = "done") =>
       (catches = 1 /\ ~outcome.success /\ outcome.error = gErr /\ gErr # "")
  /\ (rPc = "done" /\ ~rRes.success /\ oPc = "done") =>
       (catches = 1 /\ ~outcome.success /\ outcome.error = "Aptos receive failed")
  /\ (oPc = "done" /\ catches = 1) => RunFailed
C3_Witness ==
  /\ oPc = "done" /\ gPc = "threw" /\ gErr = "Getting attestation timeout"
  /\ outcome.error = "Getting attestation timeout" /\ catches = 1

\* C4: when the destination receive step fails, the error message of the
\* outcome is the message of the underlying destination-chain error.
C4_ReceiveErrorVerbatim ==
  (oPc = "done" /\ rPc = "done" /\ ~rRes.success) => outcome.error = rCaught

\* C5: a failing run delivers exactly one failed emission, as its last
\* emission and with the error's message; the emissions before it are those
\* of a successful run up to the failing step (step 1 completed carries the
\* source transaction hash).
C5_FailedEmissionLast ==
  RunFailed =>
    LET n == Len(emissions)
    IN  /\ n = EmissionsBeforeFailure + 1
        /\ emissions[n].status = "failed"
        /\ emissions[n].details = CaughtError
        /\ emissions[n].details = outcome.error
        /\ \A i \in 1..(n - 1) :
             /\ emissions[i].status # "failed"
             /\ Triple(emissions[i]) = SuccessTriples[i]
        /\ sPc = "returned" =>
             (emissions[2].txHash = sRes.txHash /\ sRes.txHash = BaseTx)
C5_Witness ==
  /\ RunFailed /\ sPc = "returned" /\ gPc = "returned"
  /\ Len(emissions) = 6 /\ emissions[6].status = "failed"
  /\ emissions[2].txHash = BaseTx

\* C6: executeFullCrossChain never invokes the burn when the sender's
\* balance is below the requested amount.
C6_NoBurnWhenInsufficient ==
  (sPc # "idle" /\ burnsMined = 0 /\ parseUnits(sAmount, Decimals).ok
   /\ baseBal < parseUnits(sAmount, Decimals).val) => burnCalls = <<>>

\* C7: when every answer before the complete one was a 404, getAttestation
\* returns the complete attestation at that answer, after k+1 queries and k
\* sleeps for k answers 404; and a 404 within the retry budget leaves the
\* loop running without an error.
MaxRetriesError == "Getting attestation exceeded maximum retry attempts"
C7_NotFoundThenComplete ==
  /\ (lastKind = "complete" /\ n404 = queries - 1) =>
       /\ pPc = "returned"
       /\ pRes.status = "complete" /\ pRes.messageHash = pHash
       /\ queries = n404 + 1
       /\ sleeps = n404
       /\ now <= n404 * PollInterval + queries * MaxLatency
  /\ lastKind = "404" =>
       /\ lastStep = "notfound"
       /\ retries < MaxRetries => (pPc = "loop" /\ pErr = "")
       /\ retries >= MaxRetries => (pPc = "threw" /\ pErr = MaxRetriesError)
C7_Witness ==
  pPc = "returned" /\ n404 = 3 /\ queries = 4 /\ sleeps = 3 /\ lastKind = "complete"

\* C8: a loop iteration of getAttestation that begins after maxWaitTime has
\* elapsed ends the call with the timeout error, without a sleep or a query.
TimeoutError == "Getting attestation timeout"
C8_TimeoutEndsLoop ==
  [][(pPc = "loop" /\ now > MaxWaitTime) =>
       (pPc' = "threw" /\ pErr' = TimeoutError /\ sleeps' = sleeps
        /\ queries' = queries)]_vars

\* C9: a successful receiveCCTPUSDC reports balanceAfter - balanceBefore of
\* the two balances it read, whatever the nominal amount.
C9_AmountIsBalanceDelta ==
  (rPc = "done" /\ rRes.success) =>
    /\ balBefore # Undef /\ balAfter # Undef
    /\ rRes.usdcAmount = IntToString(BigInt(balAfter) - BigInt(balBefore))
    /\ BigInt(rRes.usdcAmount) = BigInt(balAfter) - BigInt(balBefore)
C9_Witness ==
  /\ rPc = "done" /\ rRes.success
  /\ balBefore = <<"5">> /\ balAfter = IntToString(5 + NominalAmount - 1)
  /\ BigInt(rRes.usdcAmount) = NominalAmount - 1

\* C10: aptosAddressToBytes32 succeeds exactly on inputs that are 64
\* hexadecimal characters after an optional leading 0x, returning 0x and
\* those characters; every other input fails with the invalid-address error.
StripLeadingOx(s) == IF StartsWithOx(s) THEN SubSeq(s, 3, Len(s)) ELSE s
ValidAddress(s) == Len(StripLeadingOx(s)) = AddrHexLen /\ IsHex(StripLeadingOx(s))
C10_CodecIffValid ==
  addrRes # NoRes =>
    /\ addrRes.ok <=> ValidAddress(addrIn)
    /\ addrRes.ok => addrRes.val = Ox \o StripLeadingOx(addrIn)
    /\ ~addrRes.ok => addrRes.err = "Invalid Aptos address length"
    /\ addrAgain # NoRes => addrAgain = addrRes


\* C11: in getAttestation a response that is neither ok nor 404 (HTTP 500)
\* ends the polling at once with an error: the iteration that received it
\* does not sleep and leaves the loop.
C11_ErrorResponseEndsPolling ==
  [][(pPc = "loop" /\ queries' = queries + 1 /\ lastKind' = "error") =>
       (pPc' = "threw" /\ sleeps' = sleeps)]_vars

\* C12: in getAttestation an ok response with status failed ends the polling
\* at once with the attestation-failed error: the iteration that received it
\* does not sleep and leaves the loop.
C12_FailedStatusEndsPolling ==
  [][(pPc = "loop" /\ queries' = queries + 1 /\ lastKind' = "failed") =>
       (pPc' = "threw" /\ pErr' = "Circle signature failed"
        /\ sleeps' = sleeps)]_vars

\* C13: getAttestation has returned only if the last answer was an ok
\* response with status complete and a non-empty attestation; the value
\* returned has status complete, the queried hash and that attestation. After
\* a complete answer with an empty or missing attestation the call has not
\* returned: the loop goes on while attempts are left.
C13_ReturnsOnlyOnCompleteSigned ==
  /\ pPc = "returned" =>
       /\ lastKind = "complete" /\ Truthy(lastSig)
       /\ pRes.status = "complete"
       /\ pRes.messageHash = pHash
       /\ pRes.attestation = lastSig
  /\ lastKind = "nosig" =>
       pPc = (IF retries < MaxRetries THEN "loop" ELSE "threw")
C13_Witness ==
  pPc = "returned" /\ queries >= 2 /\ pRes.attestation = SigB
  /\ pRes.messageHash = Keccak(MsgA)

\* C14: one call of getAttestation makes at most maxRetries queries; when
\* every answer was 404 and the attempts ran out with no deadline hit, the
\* call has thrown the retries-exhausted error after exactly maxRetries
\* queries.
C14_QueriesBounded ==
  /\ queries <= MaxRetries
  /\ (pPc = "threw" /\ pErr = MaxRetriesError /\ n404 = queries
      /\ sleeps = queries) => queries = MaxRetries
  /\ n404 = MaxRetries => (pPc = "threw" /\ pErr = MaxRetriesError)
C14_Witness ==
  pPc = "threw" /\ pErr = MaxRetriesError /\ n404 = MaxRetries
  /\ queries = MaxRetries /\ now <= MaxWaitTime + PollInterval

\* C15: every call of getAttestation ends, by returning or by throwing,
\* whatever the authority answers, when each fetch and each sleep completes.
C15_PollingTerminates == <>(pPc \in {"returned", "threw"})
C15_Witness ==
  pPc = "threw" /\ lastKind = "throw" /\ queries = MaxRetries


\* C16: getAttestationFromTransaction queries the authority only after the
\* message was extracted from the source transaction, and with the hash of
\* that message; the value it returns has non-empty messageBytes, and when
\* the authority's complete answer carried no message they are the bytes
\* extracted from the transaction.
C16_ExtractThenPollBackfilled ==
  /\ gPc = "extract" => (queries = 0 /\ pPc = "idle")
  /\ gPc = "poll" =>
       (Truthy(xMsg) /\ xMsg = burnMsg /\ pHash = Keccak(xMsg))
  /\ gPc = "returned" =>
       /\ gRes.messageHash = Keccak(xMsg)
       /\ Truthy(gRes.messageBytes)
       /\ ~Truthy(lastMsg) => gRes.messageBytes = xMsg
C16_Witness ==
  gPc = "returned" /\ gImpl = "mobile" /\ lastMsg = Undef
  /\ gRes.messageBytes = MsgA /\ xMsg = MsgA

\* C17: in every run of executeCrossChain the message given to
\* receiveCCTPUSDC is the message of the MessageSent event of the burn
\* transaction, whatever message the authority's answer carried.
C17_ReceiveGetsEmittedMessage ==
  rPc # "idle" => rMsg = burnMsg


\* a hex string argument that is absent, has no 0x prefix or encodes no byte
NoBytes(hex) ==
  ~Truthy(hex) \/ ~StartsWithOx(hex) \/ Len(hexToBytes(hex)) = 0
FormatErrors ==
  {"Invalid message bytes format", "Invalid attestation format", "TypeError"}

\* C18: receiveCCTPUSDC called with a message or an attestation that is
\* absent, has no 0x prefix or encodes zero bytes fails on its input checks
\* (the format error, or the TypeError an absent attestation raises in its
\* place) before anything is done with the destination chain: no balance was
\* read, no transaction built or submitted.
C18_BadInputFailsBeforeChain ==
  (rPc \notin {"idle", "start"} /\ (NoBytes(rMsg) \/ NoBytes(rAtt))) =>
    /\ rPc = "done" /\ ~rRes.success
    /\ rCaught \in FormatErrors
    /\ balBefore = Undef /\ rArgs = <<>> /\ aptTxs = 0

C20_SuccessOnlyIfAllSteps ==
  /\ outcome.success =>
       /\ oPc = "done"
       /\ sPc = "returned" /\ burnsMined = 1 /\ sRes.txHash = burnTx
       /\ Truthy(xMsg) /\ xMsg = burnMsg
       /\ gPc = "returned" /\ gRes.status = "complete"
       /\ Truthy(gRes.attestation)
       /\ rPc = "done" /\ rRes.success /\ rTx = AptosTx /\ aptTxs = 1
  /\ (oPc = "done" /\ sPc = "returned" /\ rPc = "done" /\ ~rRes.success) =>
       ~outcome.success
C20_Witness ==
  oPc = "done" /\ sPc = "returned" /\ burnsMined = 1 /\ gPc = "returned"
  /\ rPc = "done" /\ ~rRes.success /\ aptTxs = 1 /\ ~outcome.success


\* C21: executeCrossChain runs its steps one after the other: the
\* attestation step is entered only when executeFullCrossChain has returned
\* the burn hash, receiveCCTPUSDC only when getAttestationFromTransaction
\* has returned a complete attestation, and nothing is started after a step
\* threw.
C21_StepsInSequence ==
  /\ gPc # "idle" => (sPc = "returned" /\ sRes.txHash = BaseTx)
  /\ rPc # "idle" =>
       (gPc = "returned" /\ gRes.status = "complete" /\ sPc = "returned")
  /\ sPc = "threw" => (gPc = "idle" /\ rPc = "idle")
  /\ gPc = "threw" => rPc = "idle"
C21_Witness ==
  oPc = "step3" /\ rPc = "start" /\ gPc = "returned" /\ sPc = "returned"
  /\ rAtt = gRes.attestation

\* positions of an operation in the log of source-chain operations
OpsAt(op) == {i \in 1..Len(sOps) : sOps[i] = op}

\* C22: executeFullCrossChain reads the signer's nonce once, before the
\* approval; the approval is submitted with that nonce n and the burn with
\* n + 1; the nonce is not read again.
C22_NonceReadOnce ==
  (approveCalls # <<>> \/ burnCalls # <<>>) =>
    /\ Cardinality(OpsAt("getNonce")) = 1
    /\ \A i \in OpsAt("getNonce"), j \in OpsAt("approve") \cup OpsAt("burn") :
         i < j
    /\ \A i \in 1..Len(approveCalls) : approveCalls[i] = sNonce
    /\ \A i \in 1..Len(burnCalls) : burnCalls[i].nonce = sNonce + 1

\* C23: an error other than the expired-nonce error caught during the burn
\* is thrown to the caller of the sender: the burn is not attempted again.
C23_OtherErrorsPropagate ==
  (sCaught # "" /\ sCaught # NonceExpired) =>
    (sPc = "threw" /\ sErr = sCaught)

\* C24: the burn is attempted at most 3 times in one call; an expired-nonce
\* error is retried, and is thrown to the caller only when the third
\* attempt failed with it; a call that returned made no burn after the one
\* that succeeded.
C24_NonceErrorRetried ==
  /\ Len(burnCalls) <= BurnMaxRetries
  /\ (sPc = "threw" /\ sCaught = NonceExpired) =>
       Len(burnCalls) = BurnMaxRetries
  /\ sPc = "returned" => sOps[Len(sOps)] = "burnMined"

\* C25: executeFullCrossChain submits the approval only after the balance
\* check passed and the burn only after the approval was mined.
C25_BalanceApproveBurn ==
  /\ \A j \in OpsAt("approve") : \E i \in OpsAt("balanceOk") : i < j
  /\ \A j \in OpsAt("burn") :
       \E i \in OpsAt("approveMined") :
         i < j /\ \E k \in OpsAt("approve") : k < i


\* C26: every burn call carries as mint recipient exactly the 64 characters
\* of the recipient of the request (after its optional leading 0x): a
\* recipient of another width never reaches a burn call, and nothing is
\* added to or removed from the address.
C26_BurnRecipientIsRequested ==
  \A i \in 1..Len(burnCalls) :
    /\ Len(StripLeadingOx(sRecipient)) = AddrHexLen
    /\ burnCalls[i].mintRecipient = Ox \o StripLeadingOx(sRecipient)

ReceiptUnavailable ==
  {"Unable to get transaction receipt",
   "Unable to get transaction receipt, please try again later"}

\* C27: the extraction looks the receipt up at most 15 times and throws the
\* receipt-unavailable error only when each of the 15 lookups returned no
\* receipt.
C27_ReceiptLookupsBounded ==
  /\ lookups <= ExtractMaxRetries
  /\ (gPc = "threw" /\ gErr \in ReceiptUnavailable) =>
       lookups = ExtractMaxRetries


EventNotFound == "MessageSent event not found"
C29_SuccessOnlyIfConfirmed ==
  /\ rRes.success =>
       /\ aptStatus = "success" /\ aptTxs = 1
       /\ rRes.txHash = rTx /\ rTx # ""
       /\ rCaught = ""
  /\ aptStatus = "reverted" =>
       /\ rPc = "done" /\ rRes = RecvFailure
       /\ rCaught = "Transaction failed: vm_status"
       /\ balAfter = Undef
C29_Witness ==
  rPc = "done" /\ aptStatus = "reverted" /\ aptTxs = 1 /\ rRes = RecvFailure

\* the balance most recently returned by checkUSDCBalance, while the store
\* it was read from is still as it was read
LastBalance == IF rPc = "done" THEN balAfter ELSE balBefore
BalanceRead ==
  rPc \in {"build", "submit", "wait"} \/ (rPc = "done" /\ rRes.success)

StepFailed ==
  \/ sPc = "threw"
  \/ gPc = "threw"
  \/ (rPc = "done" /\ ~rRes.success)
\* the transactions submitted on either chain and what they wrote
ChainState ==
  <<approveCalls, burnCalls, burnsMined, burnTx, burnStatus, burnMsg,
    baseNonce, allowance, baseBal, aptTxs, rTx, aptStatus, aptFA, aptCoin>>

\* C31: from a state in which a step of the run has failed, no step of the
\* orchestrator submits a transaction on either chain or changes what the
\* submitted transactions wrote (the approval, the burn, the balances), no
\* step machine is started again, and the run ends as a failure.
C31_NoRollback ==
  [][StepFailed =>
       /\ UNCHANGED ChainState
       /\ sPc' \in {"idle", "returned", "threw"}
       /\ rPc' \in {"idle", "done"}
       /\ (oPc' = "done" => ~outcome'.success)]_vars
C31_Witness ==
  /\ oPc = "done" /\ ~outcome.success /\ gPc = "threw"
  /\ burnsMined = 1 /\ Len(burnCalls) = 1 /\ aptTxs = 0

\* C32: every emission has a step index in 1..3, totalSteps 3 and a status
\* among processing, completed and failed.
C32_EmissionsWellFormed ==
  \A i \in 1..Len(emissions) :
    /\ emissions[i].step \in 1..3
    /\ emissions[i].totalSteps = 3
    /\ emissions[i].status \in {"processing", "completed", "failed"}

\* C34: within one call of the sender, once a burn transaction has been
\* mined no further burn transaction is submitted: no second burn is
\* awaiting confirmation, and at most one burn is ever mined.
C34_NoBurnAfterMinedBurn ==
  burnsMined >= 1 => (sPc # "burnWait" /\ burnsMined = 1)

\* C35: with an invalid recipient address executeFullCrossChain fails
\* without having submitted the approval or the burn, and the signer's nonce
\* and allowance are as they were.
C35_InvalidRecipientSubmitsNothing ==
  (sPc # "idle" /\ ~ValidAddress(sRecipient)) =>
    /\ approveCalls = <<>> /\ burnCalls = <<>>
    /\ baseNonce = 0 /\ allowance = FALSE
    /\ sPc # "returned"

C37_OutcomeAmountIsReceived ==
  (oPc = "done" /\ outcome.success) =>
    /\ parseUnits(outcome.usdcAmount, Decimals).ok
    /\ parseUnits(outcome.usdcAmount, Decimals).val = BigInt(rRes.usdcAmount)

\* C38: the amount reported with success = true is not negative.
C38_ReceivedAmountNotNegative ==
  (rPc = "done" /\ rRes.success) => BigInt(rRes.usdcAmount) >= 0

\* C39: once receiveCCTPUSDC has submitted a destination transaction its
\* result carries the hash of that transaction, failure results included;
\* the hash is empty only when nothing was submitted.
C39_ResultCarriesSubmittedHash ==
  rPc = "done" =>
    IF aptTxs = 0 THEN rRes.txHash = "" ELSE rRes.txHash = rTx /\ rTx # ""

\* C40: executeCrossChain never rejects, also when the progress callback
\* throws on some of its invocations.
C40_NeverRejects == oPc # "rejected"

\* the transactions run r handed to the node
CallsOf(r) == SelectSeq(cCalls, LAMBDA t : t.run = r)
\* C33: within one run the approval carries the nonce n the run read at its
\* start and the burn carries n + 1, whatever the other run did meanwhile:
\* nothing makes a run read the nonce again or wait for the other run.
C33_NoncesFromInitialRead ==
  \A r \in Runs :
    /\ Len(CallsOf(r)) <= 2
    /\ \A i \in 1..Len(CallsOf(r)) :
         /\ cNonce[r] >= 0
         /\ CallsOf(r)[i].kind = (IF i = 1 THEN "approve" ELSE "burn")
         /\ CallsOf(r)[i].nonce = cNonce[r] + (i - 1)
\* the interleaving of the claim: both runs read the same initial nonce and
\* each handed the node an approval with that nonce; one run went on to its
\* burn with the next nonce
C33_Witness ==
  /\ cNonce[1] = cNonce[2] /\ cNonce[1] >= 0
  /\ \E i, j \in 1..Len(cCalls) :
       /\ cCalls[i].run = 1 /\ cCalls[j].run = 2
       /\ cCalls[i].kind = "approve" /\ cCalls[j].kind = "approve"
       /\ cCalls[i].nonce = cCalls[j].nonce
  /\ \E r \in Runs : cPc[r] = "returned" /\ Len(CallsOf(r)) = 2
  /\ \A r \in Runs : cPc[r] \in {"returned", "threw"}

====
